---- MODULE Spec2Model ----
(***************************************************************************)
(* Model of client/components/ToolPanel.jsx: the ToolPanel React component *)
(* (session initialisation, tool-call detection, delayed follow-up, manual *)
(* session update, reset on session end).                                  *)
(*                                                                         *)
(* Props (isSessionActive, sendClientEvent, events) are owned by the       *)
(* parent; the component's useState cells and the bookkeeping React keeps  *)
(* for the two useEffect hooks (last dependency values, the cleanup        *)
(* closure's timeoutId) are the state.  One Render action is one commit:   *)
(* it runs, in declaration order, each effect whose dependencies changed.  *)
(***************************************************************************)
EXTENDS Integers, Sequences, FiniteSets, TLC

(* ------------------------------ bounds -------------------------------- *)
MaxEvents == 2      \* server events delivered over the whole run
MaxOutputs == 2     \* entries of one response.output list
MaxSessions == 2    \* session activations
MaxSendIds == 1     \* replacements of the sendClientEvent prop
MaxSubmits == 2     \* form submissions
MaxEdits == 1       \* edits of the form controls
MaxInstrLen == 3    \* characters typed into the instructions textarea
MaxTime == 1        \* distinct wall-clock readings
MaxColors == 5      \* elements of a colors array in the arguments

(* --------------------------- constant data ---------------------------- *)
\* The default instructions text: non-blank and without surrounding
\* whitespace, so trimming leaves it as it is.
DEFAULT_INSTRUCTIONS == <<"D">>

VOICE_OPTIONS == <<"marin", "alloy", "sol", "verse">>

TOOL_NAME == "display_color_palette"

Chars == {" ", "x"}

RECURSIVE SeqsUpTo(_, _)
SeqsUpTo(S, n) ==
    IF n = 0 THEN {<<>>}
    ELSE LET shorter == SeqsUpTo(S, n - 1)
         IN shorter \cup {Append(s, c) : s \in {t \in shorter : Len(t) = n - 1}, c \in S}

(* ------------------------------- JSON --------------------------------- *)
\* A text is a sequence of tokens: the punctuation below, null, and any
\* other token, which is a string literal with that content.
Punctuation == {"{", "}", "[", "]", ":", ",", "null"}

IsStringToken(tok) == tok \notin Punctuation

\* Values: null, undefined, strings, arrays and objects.  The items of an
\* array are [k |-> "", v |-> value], those of an object [k |-> key, v |-> value].
JNull == [t |-> "null", s |-> "", items |-> <<>>]
JUndefined == [t |-> "undefined", s |-> "", items |-> <<>>]
JStr(x) == [t |-> "str", s |-> x, items |-> <<>>]
JArr(values) ==
    [t |-> "arr", s |-> "", items |-> [i \in 1..Len(values) |-> [k |-> "", v |-> values[i]]]]
JObj(members) == [t |-> "obj", s |-> "", items |-> members]

ParseFailed == [ok |-> FALSE, v |-> JUndefined, rest |-> <<>>]

RECURSIVE ParseValue(_)
RECURSIVE ParseMembers(_, _, _)
RECURSIVE ParseElements(_, _, _)

\* members of an object after "{" or ","; acc holds those read so far
ParseMembers(toks, acc, first) ==
    IF toks = <<>> THEN ParseFailed
    ELSE IF first /\ Head(toks) = "}"
    THEN [ok |-> TRUE, v |-> JObj(acc), rest |-> Tail(toks)]
    ELSE IF Len(toks) < 3 \/ ~IsStringToken(toks[1]) \/ toks[2] # ":"
    THEN ParseFailed
    ELSE LET r == ParseValue(SubSeq(toks, 3, Len(toks)))
             members == Append(acc, [k |-> toks[1], v |-> r.v])
         IN IF ~r.ok \/ r.rest = <<>> THEN ParseFailed
            ELSE IF Head(r.rest) = "}"
            THEN [ok |-> TRUE, v |-> JObj(members), rest |-> Tail(r.rest)]
            ELSE IF Head(r.rest) = ","
            THEN ParseMembers(Tail(r.rest), members, FALSE)
            ELSE ParseFailed

\* elements of an array after "[" or ","; acc holds those read so far
ParseElements(toks, acc, first) ==
    IF toks = <<>> THEN ParseFailed
    ELSE IF first /\ Head(toks) = "]"
    THEN [ok |-> TRUE, v |-> JArr(acc), rest |-> Tail(toks)]
    ELSE LET r == ParseValue(toks)
             values == Append(acc, r.v)
         IN IF ~r.ok \/ r.rest = <<>> THEN ParseFailed
            ELSE IF Head(r.rest) = "]"
            THEN [ok |-> TRUE, v |-> JArr(values), rest |-> Tail(r.rest)]
            ELSE IF Head(r.rest) = ","
            THEN ParseElements(Tail(r.rest), values, FALSE)
            ELSE ParseFailed

ParseValue(toks) ==
    IF toks = <<>> THEN ParseFailed
    ELSE IF Head(toks) = "null"
    THEN [ok |-> TRUE, v |-> JNull, rest |-> Tail(toks)]
    ELSE IF Head(toks) = "{" THEN ParseMembers(Tail(toks), <<>>, TRUE)
    ELSE IF Head(toks) = "[" THEN ParseElements(Tail(toks), <<>>, TRUE)
    ELSE IF IsStringToken(Head(toks))
    THEN [ok |-> TRUE, v |-> JStr(Head(toks)), rest |-> Tail(toks)]
    ELSE ParseFailed

\* JSON.parse(text): the value, or a SyntaxError when the text is no JSON
\* document (ok is false).
JSONParse(text) ==
    LET r == ParseValue(text)
    IN IF r.ok /\ r.rest = <<>> THEN [ok |-> TRUE, v |-> r.v]
       ELSE [ok |-> FALSE, v |-> JUndefined]

\* The text of a value, as the server encodes the arguments of a call.
RECURSIVE Stringify(_)
RECURSIVE StringifyItems(_, _, _)
StringifyItems(items, i, withKeys) ==
    IF i > Len(items) THEN <<>>
    ELSE (IF i > 1 THEN <<",">> ELSE <<>>)
         \o (IF withKeys THEN <<items[i].k, ":">> ELSE <<>>)
         \o Stringify(items[i].v)
         \o StringifyItems(items, i + 1, withKeys)

Stringify(v) ==
    IF v.t = "null" THEN <<"null">>
    ELSE IF v.t = "str" THEN <<v.s>>
    ELSE IF v.t = "arr" THEN <<"[">> \o StringifyItems(v.items, 1, FALSE) \o <<"]">>
    ELSE <<"{">> \o StringifyItems(v.items, 1, TRUE) \o <<"}">>

(* ----------------------- arguments of a tool call --------------------- *)
\* "Array of five hex color codes based on the theme."
PaletteSize == 5

Themes == {"ocean"}
Colors == {"#001", "#002"}

\* The values the colors member takes: arrays of up to MaxColors color
\* strings, null, and a string.
ColorsValues ==
    {JArr([i \in 1..Len(cs) |-> JStr(cs[i])]) : cs \in SeqsUpTo(Colors, MaxColors)}
    \cup {JNull, JStr("#001")}

\* Objects with or without theme, with or without colors.
ArgumentObjects ==
    {JObj(<<[k |-> "theme", v |-> JStr(th)], [k |-> "colors", v |-> c]>>) :
        th \in Themes, c \in ColorsValues}
    \cup {JObj(<<[k |-> "colors", v |-> c]>>) : c \in ColorsValues}
    \cup {JObj(<<[k |-> "theme", v |-> JStr(th)]>>) : th \in Themes}
    \cup {JObj(<<>>)}

\* Texts that are no JSON document: a document cut short, or with a token
\* after its end.
BrokenTexts ==
    LET doc == Stringify(JObj(<<[k |-> "theme", v |-> JStr("ocean")],
                                [k |-> "colors", v |-> JArr(<<JStr("#001")>>)]>>))
    IN {SubSeq(doc, 1, n) : n \in 0..(Len(doc) - 1)} \cup {doc \o <<"}">>, doc \o <<",">>}

\* The arguments strings a call can carry.
ArgumentTexts ==
    {Stringify(v) : v \in ArgumentObjects \cup {JNull, JStr("ocean"), JArr(<<>>)}}
    \cup BrokenTexts

\* The arguments of the calls in the event log of the session protocol.
SampleArguments ==
    Stringify(JObj(<<[k |-> "theme", v |-> JStr("ocean")],
                     [k |-> "colors", v |-> JArr(<<JStr("#001"), JStr("#002")>>)]>>))

(* ------------------------------ events -------------------------------- *)
\* One entry of response.output: its type, name and arguments.
OutputEntries ==
    { [type |-> "function_call", name |-> TOOL_NAME, arguments |-> SampleArguments],
      [type |-> "function_call", name |-> "other_tool", arguments |-> SampleArguments],
      [type |-> "message",       name |-> TOOL_NAME, arguments |-> SampleArguments] }

\* The payloads a server event can carry.  hasOutput says whether
\* response.output is present (an empty list is present).
EventPayloads ==
    { [type |-> "session.created", hasOutput |-> FALSE, output |-> <<>>],
      [type |-> "other",           hasOutput |-> FALSE, output |-> <<>>],
      [type |-> "response.done",   hasOutput |-> FALSE, output |-> <<>>] }
    \cup
    { [type |-> "response.done", hasOutput |-> TRUE, output |-> o] :
        o \in SeqsUpTo(OutputEntries, MaxOutputs) }

\* null for functionCallOutput
Null == [ev |-> 0, idx |-> 0, type |-> "null", name |-> "null", arguments |-> <<>>]

VARIABLES
    isSessionActive,     \* prop
    sendClientEvent,     \* prop: identity of the command-sending function
    events,              \* prop: the event log
    functionAdded,       \* useState(false)
    functionCallOutput,  \* useState(null)
    instructions,        \* useState(DEFAULT_INSTRUCTIONS)
    voice,               \* useState(VOICE_OPTIONS[0].value)
    lastSessionUpdate,   \* useState(null); 0 is null
    deps1,               \* dependencies of the last run of the first effect
    deps2,               \* dependencies of the last run of the second effect
    timeoutId,           \* timeoutId held by the registered cleanup; 0 is none
    timers,              \* timers armed with window.setTimeout, still pending
    nextTimer,           \* next id window.setTimeout returns
    sent,                \* history: commands passed to sendClientEvent
    stored,              \* history: calls of setFunctionCallOutput(output)
    fired,               \* history: ids of the timers that fired
    session,             \* history: number of session activations
    arrived,             \* history: number of server events delivered
    startedAdded,        \* history: functionAdded when the session started
    lastOp,              \* history: the operation that ran last
    lastPass,            \* history: what the last commit's first effect did
    budget               \* remaining submissions and edits

vars == << isSessionActive, sendClientEvent, events, functionAdded,
           functionCallOutput, instructions, voice, lastSessionUpdate,
           deps1, deps2, timeoutId, timers, nextTimer, sent, stored, fired,
           session, arrived, startedAdded, lastOp, lastPass, budget >>

NoPass == [ran |-> FALSE, grew |-> FALSE, armed |-> 0, updates |-> 0,
           registered |-> FALSE, initSeen |-> 0, toolSeen |-> 0, order |-> <<>>]

(* --------------------------- first effect ----------------------------- *)
\* const firstEvent = events[events.length - 1];
FirstEventOf(evs) == evs[Len(evs)]

\* const mostRecentEvent = events[0];
MostRecentEventOf(evs) == evs[1]

\* mostRecentEvent.type === "response.done" && mostRecentEvent.response.output
HasOutputList(ev) == ev.type = "response.done" /\ ev.hasOutput

\* IsToolCall without the comparison of the name.
IsToolCall_AnyName(output) == output.type = "function_call"

\* output.type === "function_call" && output.name === "display_color_palette"
IsToolCall(output) == output.type = "function_call" /\ output.name = TOOL_NAME

ToolRegistration(active, sess) ==
    [type |-> "session.update", kind |-> "tools", active |-> active,
     sess |-> sess, call |-> <<0, 0>>, instructions |-> <<>>, voice |-> "none"]

FollowUp(active, sess, call) ==
    [type |-> "response.create", kind |-> "followup", active |-> active,
     sess |-> sess, call |-> call, instructions |-> <<>>, voice |-> "none"]

\* The cleanup returned by the previous run: if (timeoutId) clearTimeout(timeoutId)
Cleanup(tms, tid) == IF tid # 0 THEN {t \in tms : t.id # tid} ELSE tms

\* ForEachOutput that stops at the first tool call of the list.
ForEachOutput_FirstOnly(ev, i, s) ==
    LET hits == {j \in i..Len(ev.output) :
                   ev.output[j].type = "function_call" /\ ev.output[j].name = TOOL_NAME}
    IN IF hits = {} THEN s
       ELSE LET j == CHOOSE k \in hits : \A m \in hits : k <= m
            IN [s EXCEPT
                  !.fco = [ev |-> ev.id, idx |-> j,
                           type |-> ev.output[j].type, name |-> ev.output[j].name,
                           arguments |-> ev.output[j].arguments],
                  !.stored = Append(@, <<ev.id, j>>),
                  !.timers = @ \cup {[id |-> s.nextTimer, call |-> <<ev.id, j>>]},
                  !.timeoutId = s.nextTimer,
                  !.nextTimer = @ + 1,
                  !.order = @ \o <<"record", "arm">>]

\* mostRecentEvent.response.output.forEach(...): entries i..Len of ev.output,
\* threaded through the effect's working state s.
RECURSIVE ForEachOutput(_, _, _)
ForEachOutput(ev, i, s) ==
    IF i > Len(ev.output) THEN s
    ELSE IF IsToolCall(ev.output[i])
         THEN ForEachOutput(ev, i + 1,
                [s EXCEPT
                   !.fco = [ev |-> ev.id, idx |-> i,
                            type |-> ev.output[i].type, name |-> ev.output[i].name,
                            arguments |-> ev.output[i].arguments],
                   !.stored = Append(@, <<ev.id, i>>),
                   !.timers = @ \cup {[id |-> s.nextTimer, call |-> <<ev.id, i>>]},
                   !.timeoutId = s.nextTimer,
                   !.nextTimer = @ + 1,
                   !.order = @ \o <<"record", "arm">>])
         ELSE ForEachOutput(ev, i + 1, s)

\* The initialisation rule (lines 109-113) on working state s.
InitRule(evs, added, s) ==
    IF ~added /\ FirstEventOf(evs).type = "session.created"
    THEN [s EXCEPT !.sent = Append(@, ToolRegistration(s.active, s.sess)),
                   !.fa = TRUE,
                   !.order = Append(@, "register")]
    ELSE s

\* The tool-completion rule (lines 115-140) on working state s.
ToolRule(evs, s) ==
    IF HasOutputList(MostRecentEventOf(evs))
    THEN ForEachOutput(MostRecentEventOf(evs), 1, s)
    ELSE s

\* Effect1 with the tool-completion rule applied before the initialisation
\* rule.
Effect1_ToolRuleFirst(evs, added, s) ==
    LET c == [s EXCEPT !.timers = Cleanup(s.timers, s.timeoutId), !.timeoutId = 0]
    IN IF Len(evs) = 0 THEN c
       ELSE InitRule(evs, added, ToolRule(evs, c))

\* The body of the first effect, run with the rendered values of its
\* dependencies, after the previous run's cleanup.
Effect1(evs, added, s) ==
    LET c == [s EXCEPT !.timers = Cleanup(s.timers, s.timeoutId), !.timeoutId = 0]
    IN IF Len(evs) = 0 THEN c
       ELSE ToolRule(evs, InitRule(evs, added, c))

(* --------------------------- second effect ---------------------------- *)
\* Effect2 that leaves the form as the user left it.
Effect2_KeepsDraft(active, s) ==
    IF ~active
    THEN [s EXCEPT !.fa = FALSE, !.fco = Null, !.lsu = 0]
    ELSE s

\* if (!isSessionActive) { ...reset... }
Effect2(active, s) ==
    IF ~active
    THEN [s EXCEPT !.fa = FALSE, !.fco = Null, !.lsu = 0,
                   !.instructions = DEFAULT_INSTRUCTIONS,
                   !.voice = VOICE_OPTIONS[1]]
    ELSE s

(* ------------------------- FunctionCallOutput ------------------------- *)
Threw(error) ==
    [kind |-> "throws", error |-> error, theme |-> JUndefined, boxes |-> <<>>]

\* const { theme, colors } = ...: the member named key of an object (the
\* last one of that name), undefined for a value that has none.
RECURSIVE LastMember(_, _, _)
LastMember(items, key, i) ==
    IF i = 0 THEN JUndefined
    ELSE IF items[i].k = key THEN items[i].v
    ELSE LastMember(items, key, i - 1)

Property(v, key) ==
    IF v.t = "obj" THEN LastMember(v.items, key, Len(v.items)) ELSE JUndefined

\* ColorBoxes that draws a color once, however often the array names it.
RECURSIVE ColorBoxes_OncePerKey(_)
ColorBoxes_OncePerKey(colors) ==
    IF Len(colors.items) = 0 THEN <<>>
    ELSE LET n == Len(colors.items)
             before == ColorBoxes_OncePerKey(
                          [colors EXCEPT !.items = SubSeq(colors.items, 1, n - 1)])
         IN IF \E i \in 1..Len(before) : before[i] = colors.items[n].v
            THEN before
            ELSE Append(before, colors.items[n].v)

\* colors.map((color) => <div key={color} ...>{color}</div>): one box per
\* element, in the order of the array.
ColorBoxes(colors) == [i \in 1..Len(colors.items) |-> colors.items[i].v]

\* The component FunctionCallOutput: what it renders, or the error it throws.
FunctionCallOutput(fco) ==
    LET parsed == JSONParse(fco.arguments)
    IN IF ~parsed.ok THEN Threw("SyntaxError")
       ELSE IF parsed.v.t = "null" THEN Threw("TypeError")
       ELSE LET theme == Property(parsed.v, "theme")
                colors == Property(parsed.v, "colors")
            IN IF colors.t # "arr" THEN Threw("TypeError")
               ELSE [kind |-> "palette", error |-> "", theme |-> theme,
                     boxes |-> ColorBoxes(colors)]

Prompt(kind) == [kind |-> kind, error |-> "", theme |-> JUndefined, boxes |-> <<>>]

\* The tool panel ToolPanel returns (lines 217-223), from the rendered state.
ToolPanelView ==
    IF isSessionActive
    THEN IF functionCallOutput # Null
         THEN FunctionCallOutput(functionCallOutput)
         ELSE Prompt("ask")
    ELSE Prompt("start")

(* ------------------------------ commit -------------------------------- *)
CurrentDeps1 == [events |-> events, functionAdded |-> functionAdded,
                 sendClientEvent |-> sendClientEvent]

Effect1Due == deps1 # CurrentDeps1
Effect2Due == deps2 # isSessionActive

\* A commit is pending: some effect's dependencies changed since its last run.
NeedsRender == Effect1Due \/ Effect2Due
Quiescent == ~NeedsRender

Working ==
    [fa |-> functionAdded, fco |-> functionCallOutput, lsu |-> lastSessionUpdate,
     instructions |-> instructions, voice |-> voice,
     timers |-> timers, timeoutId |-> timeoutId, nextTimer |-> nextTimer,
     sent |-> sent, stored |-> stored,
     active |-> isSessionActive, sess |-> session,
     order |-> <<>>]

Render ==
    /\ NeedsRender
    /\ LET s1 == IF Effect1Due THEN Effect1(events, functionAdded, Working) ELSE Working
           s2 == IF Effect2Due THEN Effect2(isSessionActive, s1) ELSE s1
       IN /\ functionAdded' = s2.fa
          /\ functionCallOutput' = s2.fco
          /\ lastSessionUpdate' = s2.lsu
          /\ instructions' = s2.instructions
          /\ voice' = s2.voice
          /\ timers' = s2.timers
          /\ timeoutId' = s2.timeoutId
          /\ nextTimer' = s2.nextTimer
          /\ sent' = s2.sent
          /\ stored' = s2.stored
          /\ lastPass' =
               IF Effect1Due
               THEN [ran |-> TRUE,
                     grew |-> deps1.events # events,
                     armed |-> s1.nextTimer - nextTimer,
                     updates |-> Len(s1.stored) - Len(stored),
                     registered |-> Len(s1.sent) > Len(sent),
                     initSeen |-> IF Len(events) = 0 THEN 0 ELSE FirstEventOf(events).id,
                     toolSeen |-> IF Len(events) = 0 THEN 0 ELSE MostRecentEventOf(events).id,
                     order |-> s1.order]
               ELSE NoPass
    /\ deps1' = CurrentDeps1
    /\ deps2' = isSessionActive
    /\ lastOp' = "render"
    /\ UNCHANGED << isSessionActive, sendClientEvent, events, fired, session,
                    arrived, startedAdded, budget >>

(* ------------------------- form: submit, edit ------------------------- *)
IsSpace(c) == c = " "

RECURSIVE TrimStart(_)
TrimStart(s) == IF s # <<>> /\ IsSpace(Head(s)) THEN TrimStart(Tail(s)) ELSE s

RECURSIVE TrimEnd(_)
TrimEnd(s) ==
    IF s # <<>> /\ IsSpace(s[Len(s)]) THEN TrimEnd(SubSeq(s, 1, Len(s) - 1)) ELSE s

\* Trim that strips the leading whitespace only.
Trim_StartOnly(s) == TrimStart(s)

\* String.prototype.trim
Trim(s) == TrimEnd(TrimStart(s))

UserUpdate(instr, v, active, sess) ==
    [type |-> "session.update", kind |-> "user", active |-> active,
     sess |-> sess, call |-> <<0, 0>>, instructions |-> instr, voice |-> v]

\* HandleSubmit without the early return on an inactive session.
HandleSubmit_NoGuard(active, instr, v, now, s) ==
    LET trimmedInstructions == Trim(instr)
    IN [s EXCEPT
          !.sent = Append(@, UserUpdate(
                      IF trimmedInstructions # <<>> THEN trimmedInstructions
                      ELSE DEFAULT_INSTRUCTIONS, v, s.active, s.sess)),
          !.lsu = now]

\* HandleSubmit that does not send again what it sent last.
HandleSubmit_Dedup(active, instr, v, now, s) ==
    IF ~active THEN s
    ELSE LET trimmedInstructions == Trim(instr)
             command == UserUpdate(
                           IF trimmedInstructions # <<>> THEN trimmedInstructions
                           ELSE DEFAULT_INSTRUCTIONS, v, s.active, s.sess)
         IN IF s.sent # <<>> /\ s.sent[Len(s.sent)] = command
            THEN [s EXCEPT !.lsu = now]
            ELSE [s EXCEPT !.sent = Append(@, command), !.lsu = now]

\* handleSessionUpdateSubmit on [sent, lsu], at wall-clock reading now.
HandleSubmit(active, instr, v, now, s) ==
    IF ~active THEN s
    ELSE LET trimmedInstructions == Trim(instr)
         IN [s EXCEPT
               !.sent = Append(@, UserUpdate(
                           IF trimmedInstructions # <<>> THEN trimmedInstructions
                           ELSE DEFAULT_INSTRUCTIONS, v, s.active, s.sess)),
               !.lsu = now]

SubmitSessionUpdate ==
    /\ Quiescent
    /\ budget.submits > 0
    /\ \E now \in 1..MaxTime :
         LET s == HandleSubmit(isSessionActive, instructions, voice, now, Working)
         IN /\ sent' = s.sent
            /\ lastSessionUpdate' = s.lsu
    /\ budget' = [budget EXCEPT !.submits = @ - 1]
    /\ lastOp' = "submit"
    /\ lastPass' = NoPass
    /\ UNCHANGED << isSessionActive, sendClientEvent, events, functionAdded,
                    functionCallOutput, instructions, voice, deps1, deps2,
                    timeoutId, timers, nextTimer, stored, fired, session,
                    arrived, startedAdded >>

\* onChange of the textarea (disabled while the session is inactive)
EditInstructions ==
    /\ Quiescent
    /\ isSessionActive
    /\ budget.edits > 0
    /\ \E text \in SeqsUpTo(Chars, MaxInstrLen) : instructions' = text
    /\ budget' = [budget EXCEPT !.edits = @ - 1]
    /\ lastOp' = "editInstructions"
    /\ lastPass' = NoPass
    /\ UNCHANGED << isSessionActive, sendClientEvent, events, functionAdded,
                    functionCallOutput, voice, lastSessionUpdate, deps1, deps2,
                    timeoutId, timers, nextTimer, sent, stored, fired, session,
                    arrived, startedAdded >>

\* onChange of the select (disabled while the session is inactive)
EditVoice ==
    /\ Quiescent
    /\ isSessionActive
    /\ budget.edits > 0
    /\ \E i \in 1..Len(VOICE_OPTIONS) : voice' = VOICE_OPTIONS[i]
    /\ budget' = [budget EXCEPT !.edits = @ - 1]
    /\ lastOp' = "editVoice"
    /\ lastPass' = NoPass
    /\ UNCHANGED << isSessionActive, sendClientEvent, events, functionAdded,
                    functionCallOutput, instructions, lastSessionUpdate, deps1,
                    deps2, timeoutId, timers, nextTimer, sent, stored, fired,
                    session, arrived, startedAdded >>

(* ------------------------------ timers -------------------------------- *)
\* The callback passed to window.setTimeout (lines 127-137).  Every timer
\* has the same delay, so the pending timer armed first is the one to fire.
TimerFires ==
    /\ Quiescent
    /\ \E t \in timers :
         /\ \A u \in timers : t.id <= u.id
         /\ sent' = Append(sent, FollowUp(isSessionActive, session, t.call))
         /\ timers' = timers \ {t}
         /\ fired' = fired \cup {t.id}
    /\ lastOp' = "timer"
    /\ lastPass' = NoPass
    /\ UNCHANGED << isSessionActive, sendClientEvent, events, functionAdded,
                    functionCallOutput, instructions, voice, lastSessionUpdate,
                    deps1, deps2, timeoutId, nextTimer, stored, session,
                    arrived, startedAdded, budget >>

(* --------------------- the parent: props changing --------------------- *)
\* The session becomes active; the log of the new session starts empty.
StartSession ==
    /\ Quiescent
    /\ ~isSessionActive
    /\ session < MaxSessions
    /\ isSessionActive' = TRUE
    /\ events' = <<>>
    /\ session' = session + 1
    /\ startedAdded' = functionAdded
    /\ lastOp' = "start"
    /\ lastPass' = NoPass
    /\ UNCHANGED << sendClientEvent, functionAdded, functionCallOutput,
                    instructions, voice, lastSessionUpdate, deps1, deps2,
                    timeoutId, timers, nextTimer, sent, stored, fired, arrived,
                    budget >>

\* The session becomes inactive; the log keeps its events.
StopSession ==
    /\ Quiescent
    /\ isSessionActive
    /\ isSessionActive' = FALSE
    /\ lastOp' = "stop"
    /\ lastPass' = NoPass
    /\ UNCHANGED << sendClientEvent, events, functionAdded, functionCallOutput,
                    instructions, voice, lastSessionUpdate, deps1, deps2,
                    timeoutId, timers, nextTimer, sent, stored, fired, session,
                    arrived, startedAdded, budget >>

\* A server event arrives: the log grows at index 0 (newest first).
ServerEvent ==
    /\ Quiescent
    /\ isSessionActive
    /\ arrived < MaxEvents
    /\ \E p \in EventPayloads :
         events' = << [id |-> arrived + 1, type |-> p.type,
                       hasOutput |-> p.hasOutput, output |-> p.output] >> \o events
    /\ arrived' = arrived + 1
    /\ lastOp' = "event"
    /\ lastPass' = NoPass
    /\ UNCHANGED << isSessionActive, sendClientEvent, functionAdded,
                    functionCallOutput, instructions, voice, lastSessionUpdate,
                    deps1, deps2, timeoutId, timers, nextTimer, sent, stored,
                    fired, session, startedAdded, budget >>

\* The parent passes a new sendClientEvent function.
ReplaceSendClientEvent ==
    /\ Quiescent
    /\ sendClientEvent < MaxSendIds
    /\ sendClientEvent' = sendClientEvent + 1
    /\ lastOp' = "replaceSend"
    /\ lastPass' = NoPass
    /\ UNCHANGED << isSessionActive, events, functionAdded, functionCallOutput,
                    instructions, voice, lastSessionUpdate, deps1, deps2,
                    timeoutId, timers, nextTimer, sent, stored, fired, session,
                    arrived, startedAdded, budget >>

(* --------------------------- specification ---------------------------- *)
\* The component after mounting with no session and an empty log: the first
\* effect returned early, the second wrote the initial values again.
Init ==
    /\ isSessionActive = FALSE
    /\ sendClientEvent = 0
    /\ events = <<>>
    /\ functionAdded = FALSE
    /\ functionCallOutput = Null
    /\ instructions = DEFAULT_INSTRUCTIONS
    /\ voice = VOICE_OPTIONS[1]
    /\ lastSessionUpdate = 0
    /\ deps1 = [events |-> <<>>, functionAdded |-> FALSE, sendClientEvent |-> 0]
    /\ deps2 = FALSE
    /\ timeoutId = 0
    /\ timers = {}
    /\ nextTimer = 1
    /\ sent = <<>>
    /\ stored = <<>>
    /\ fired = {}
    /\ session = 0
    /\ arrived = 0
    /\ startedAdded = FALSE
    /\ lastOp = "mount"
    /\ lastPass = NoPass
    /\ budget = [submits |-> MaxSubmits, edits |-> MaxEdits]

\* The event log, the timers, the session and the submit button.
Next ==
    \/ Render
    \/ SubmitSessionUpdate
    \/ TimerFires
    \/ StartSession
    \/ StopSession
    \/ ServerEvent
    \/ ReplaceSendClientEvent

Spec == Init /\ [][Next]_vars

\* The form: its controls, the submit button and the session.
FormNext ==
    \/ Render
    \/ SubmitSessionUpdate
    \/ EditInstructions
    \/ EditVoice
    \/ StartSession
    \/ StopSession

FormSpec == Init /\ [][FormNext]_vars

\* One growth of the log, from any log: the component is settled on a log
\* (every pass over it has run), the session is active, and a server event
\* has just been put at index 0.  functionAdded is what the passes over the
\* earlier log left: true if the session started with it true or if the
\* initialisation rule found session.created.
WithIds(payloads) ==
    [i \in 1..Len(payloads) |->
        [id |-> Len(payloads) - i + 1, type |-> payloads[i].type,
         hasOutput |-> payloads[i].hasOutput, output |-> payloads[i].output]]

PassInit ==
    /\ isSessionActive = TRUE
    /\ sendClientEvent = 0
    /\ events \in {WithIds(l) : l \in SeqsUpTo(EventPayloads, MaxEvents) \ {<<>>}}
    /\ startedAdded \in BOOLEAN
    /\ functionAdded =
         (startedAdded \/ (Len(events) > 1
                             /\ FirstEventOf(events).type = "session.created"))
    /\ functionCallOutput = Null
    /\ instructions = DEFAULT_INSTRUCTIONS
    /\ voice = VOICE_OPTIONS[1]
    /\ lastSessionUpdate = 0
    /\ deps1 = [events |-> Tail(events), functionAdded |-> functionAdded,
                sendClientEvent |-> 0]
    /\ deps2 = TRUE
    /\ timeoutId = 0
    /\ timers = {}
    /\ nextTimer = 1
    /\ sent = <<>>
    /\ stored = <<>>
    /\ fired = {}
    /\ session = IF startedAdded THEN 2 ELSE 1
    /\ arrived = Len(events)
    /\ lastOp = "event"
    /\ lastPass = NoPass
    /\ budget = [submits |-> 0, edits |-> 0]

\* The passes that growth causes, and the timers they arm.
PassNext ==
    \/ Render
    \/ TimerFires

PassSpec == PassInit /\ [][PassNext]_vars

\* One tool call, with any arguments: the component is settled in an active
\* session with an empty log and a response.done carrying one call of the
\* tool has just been put in the log.
PaletteInit ==
    /\ isSessionActive = TRUE
    /\ sendClientEvent = 0
    /\ \E a \in ArgumentTexts :
         events = << [id |-> 1, type |-> "response.done", hasOutput |-> TRUE,
                      output |-> << [type |-> "function_call", name |-> TOOL_NAME,
                                     arguments |-> a] >>] >>
    /\ functionAdded = FALSE
    /\ functionCallOutput = Null
    /\ instructions = DEFAULT_INSTRUCTIONS
    /\ voice = VOICE_OPTIONS[1]
    /\ lastSessionUpdate = 0
    /\ deps1 = [events |-> <<>>, functionAdded |-> FALSE, sendClientEvent |-> 0]
    /\ deps2 = TRUE
    /\ timeoutId = 0
    /\ timers = {}
    /\ nextTimer = 1
    /\ sent = <<>>
    /\ stored = <<>>
    /\ fired = {}
    /\ session = 1
    /\ arrived = 1
    /\ startedAdded = FALSE
    /\ lastOp = "event"
    /\ lastPass = NoPass
    /\ budget = [submits |-> 0, edits |-> 0]

\* The pass over that log, the timer it arms and the end of the session.
PaletteNext ==
    \/ Render
    \/ TimerFires
    \/ StopSession

PaletteSpec == PaletteInit /\ [][PaletteNext]_vars

\* Any log, the pass over it, its timers and the end of the session.
TeardownSpec == PassInit /\ [][PaletteNext]_vars

(* ----------------------- vocabulary of the claims --------------------- *)
Range(f) == {f[i] : i \in DOMAIN f}

\* The most recently arrived event of a non-empty log, by arrival number.
Newest(evs) == CHOOSE e \in Range(evs) : \A f \in Range(evs) : f.id <= e.id

\* The first event to arrive of a non-empty log, by arrival number.
Oldest(evs) == CHOOSE e \in Range(evs) : \A f \in Range(evs) : e.id <= f.id

\* An output entry that is a call of the registered tool.
EntryMatches(o) == o.type = "function_call" /\ o.name = "display_color_palette"

MatchingIndexes(e) ==
    IF e.type = "response.done" /\ e.hasOutput
    THEN {i \in DOMAIN e.output : EntryMatches(e.output[i])}
    ELSE {}

LastMatchingIndex(e) ==
    CHOOSE i \in MatchingIndexes(e) : \A j \in MatchingIndexes(e) : j <= i

\* Tool registrations sent during session k.
RegistrationsIn(k) ==
    Cardinality({i \in DOMAIN sent : sent[i].kind = "tools" /\ sent[i].sess = k})

CreatedIn(evs) ==
    Cardinality({i \in DOMAIN evs : evs[i].type = "session.created"})

FollowUpsFor(call) ==
    Cardinality({i \in DOMAIN sent :
                   sent[i].type = "response.create" /\ sent[i].call = call})

StoresOf(call) == Cardinality({i \in DOMAIN stored : stored[i] = call})

(* ------------------------------- claims ------------------------------- *)

\* C1: in an active session that started with functionAdded false and whose
\* log holds exactly one session.created, wherever it stands among the other
\* events, the tool registration has been sent exactly once once the pass
\* over the log has run.
C1_RegisteredExactlyOnce ==
    (isSessionActive /\ Quiescent /\ ~startedAdded /\ CreatedIn(events) = 1)
        => RegistrationsIn(session) = 1

\* C2: no response.create is sent while the session is inactive, and once the
\* teardown has been handled no follow-up timer is pending.
C2_NoFollowUpAfterTeardown ==
    /\ \A i \in DOMAIN sent : sent[i].type = "response.create" => sent[i].active
    /\ (~isSessionActive /\ Quiescent) => timers = {}

\* C3: while the session is inactive and every reaction to the teardown has
\* run, functionAdded is false, functionCallOutput is null and
\* lastSessionUpdate is null.
C3_ResetWhileInactive ==
    (~isSessionActive /\ Quiescent)
        => /\ functionAdded = FALSE
           /\ functionCallOutput = Null
           /\ lastSessionUpdate = 0

\* C4: in every session, a later one included, whose first event is
\* session.created, functionAdded is true and the tool registration has been
\* sent exactly once for that session once the pass over the log has run.
C4_InitializedOncePerSession ==
    (isSessionActive /\ Quiescent /\ events # <<>>
       /\ Oldest(events).type = "session.created")
        => functionAdded /\ RegistrationsIn(session) = 1

\* C5: the pass that handles a growth of the log whose newest event is
\* response.done with N matching entries arms N timers and stores N times,
\* and functionCallOutput is then the last matching entry.
C5_ArmsOnePerMatch ==
    (lastOp = "render" /\ lastPass.ran /\ lastPass.grew /\ events # <<>>
       /\ Newest(events).type = "response.done")
        => LET e == Newest(events)
               N == Cardinality(MatchingIndexes(e))
           IN /\ lastPass.armed = N
              /\ lastPass.updates = N
              /\ N > 0 =>
                   /\ functionCallOutput.ev = e.id
                   /\ functionCallOutput.idx = LastMatchingIndex(e)
                   /\ EntryMatches(functionCallOutput)

C5_Witness ==
    /\ lastOp = "render" /\ lastPass.ran /\ lastPass.grew
    /\ events # <<>>
    /\ Cardinality(MatchingIndexes(Newest(events))) = 2
    /\ Len(Newest(events).output) = 2
    /\ lastPass.armed = 2
    /\ functionCallOutput.idx = 2

\* C6: while the session stays active a pending follow-up timer is never
\* cancelled: after every step it is still pending or it has fired.
C6_TimersNotCancelledWhileActive ==
    [][ (isSessionActive /\ isSessionActive')
          => \A t \in timers : t \in timers' \/ t.id \in fired' ]_vars

\* C7: each tool call is stored at most once and is followed up by at most
\* one response.create.
C7_AtMostOncePerCall ==
    /\ \A i \in DOMAIN stored : StoresOf(stored[i]) = 1
    /\ \A i \in DOMAIN sent :
         sent[i].type = "response.create" => FollowUpsFor(sent[i].call) = 1

\* C8: in every pass over a non-empty log the initialisation rule and the
\* tool-completion rule examine the same event, the newest of the log.
C8_BothRulesReadNewest ==
    (lastOp = "render" /\ lastPass.ran /\ events # <<>>)
        => /\ lastPass.initSeen = lastPass.toolSeen
           /\ lastPass.toolSeen = Newest(events).id

\* C9: a step stores a tool call or arms a timer only when the newest event
\* of the log is response.done with an output list, and only for its
\* matching entries; every response.create sent is for a call so stored.
C9_OnlyMatchingOfNewest ==
    [][ /\ (stored' # stored \/ nextTimer' # nextTimer) =>
             /\ events' # <<>>
             /\ LET e == Newest(events')
                IN /\ e.type = "response.done" /\ e.hasOutput
                   /\ \A i \in (DOMAIN stored') \ (DOMAIN stored) :
                        /\ stored'[i][1] = e.id
                        /\ stored'[i][2] \in MatchingIndexes(e)
                   /\ \A t \in timers' :
                        t.id >= nextTimer =>
                          t.call[1] = e.id /\ t.call[2] \in MatchingIndexes(e)
                   /\ functionCallOutput' # Null =>
                        EntryMatches(functionCallOutput')
        /\ \A i \in DOMAIN sent' :
             sent'[i].type = "response.create" =>
               sent'[i].call \in Range(stored') ]_vars

C9_Witness ==
    /\ lastOp = "render" /\ lastPass.ran
    /\ Len(events) = 2
    /\ events[2].type = "response.done" /\ MatchingIndexes(events[2]) # {}
    /\ events[1].type = "response.done" /\ events[1].hasOutput
    /\ Len(events[1].output) = 2
    /\ Cardinality(MatchingIndexes(events[1])) = 1
    /\ lastPass.armed = 1

\* C10: a submission while the session is inactive sends nothing and leaves
\* lastSessionUpdate and the rest of the component's state as they were.
C10_InactiveSubmitIgnored ==
    [][ (lastOp' = "submit" /\ ~isSessionActive)
          => UNCHANGED << sent, lastSessionUpdate, functionAdded,
                          functionCallOutput, instructions, voice, timers >> ]_vars

C10_Witness ==
    /\ lastOp = "submit"
    /\ ~isSessionActive
    /\ session > 0
    /\ sent # <<>>

\* C11: a submission while the session is active sends exactly one
\* session.update whose instructions are the draft without its surrounding
\* whitespace, or the default text when nothing is left (never the empty
\* string), and whose voice is the selected voice; it then sets
\* lastSessionUpdate.
IsTrimOf(t, s) ==
    /\ t # <<>>
    /\ t[1] # " " /\ t[Len(t)] # " "
    /\ \E i \in 1..Len(s) : \E j \in i..Len(s) :
         /\ SubSeq(s, i, j) = t
         /\ \A k \in 1..Len(s) : (k < i \/ k > j) => s[k] = " "

IsBlank(s) == \A k \in 1..Len(s) : s[k] = " "

C11_ActiveSubmitSends ==
    [][ (lastOp' = "submit" /\ isSessionActive) =>
          /\ Len(sent') = Len(sent) + 1
          /\ SubSeq(sent', 1, Len(sent)) = sent
          /\ LET c == sent'[Len(sent')]
             IN /\ c.type = "session.update" /\ c.kind = "user"
                /\ c.instructions # <<>>
                /\ IF IsBlank(instructions)
                   THEN c.instructions = DEFAULT_INSTRUCTIONS
                   ELSE IsTrimOf(c.instructions, instructions)
                /\ c.voice = voice
          /\ lastSessionUpdate' # 0 ]_vars

C11_Witness ==
    /\ lastOp = "submit"
    /\ isSessionActive
    /\ instructions = <<" ", "x", " ">>
    /\ voice = "marin"
    /\ sent # <<>>
    /\ sent[Len(sent)].instructions = <<"x">>
    /\ lastSessionUpdate # 0

\* C12: a submission that repeats the one before it (same draft, same voice,
\* session still active) sends one more session.update with the same payload
\* and leaves functionAdded, functionCallOutput and the pending timers as
\* they were.
PayloadOf(c) == << c.type, c.kind, c.instructions, c.voice >>

C12_ResubmitSendsAgain ==
    [][ (lastOp = "submit" /\ lastOp' = "submit" /\ isSessionActive) =>
          /\ Len(sent') = Len(sent) + 1
          /\ PayloadOf(sent'[Len(sent')]) = PayloadOf(sent[Len(sent)])
          /\ UNCHANGED << functionAdded, functionCallOutput, timers >> ]_vars

C12_Witness ==
    /\ lastOp = "submit"
    /\ isSessionActive
    /\ Len(sent) = 2
    /\ sent[1].kind = "user" /\ sent[2].kind = "user"
    /\ sent[1].sess = sent[2].sess
    /\ PayloadOf(sent[1]) = PayloadOf(sent[2])
    /\ sent[1].instructions = <<"x">>
    /\ budget.edits = 0


\* The state in which the panel shows the result of a tool call.
ShowsToolCall == isSessionActive /\ functionCallOutput # Null

Parsed == JSONParse(functionCallOutput.arguments)

\* The arguments do not parse, or parse to something that has no theme or
\* no colors.
MalformedArguments ==
    \/ ~Parsed.ok
    \/ Property(Parsed.v, "theme") = JUndefined
    \/ Property(Parsed.v, "colors") = JUndefined

\* C13: a tool call whose arguments are malformed (they do not parse, or
\* theme or colors is missing) raises no error out of the panel: the panel
\* shows an error state for it.
C13_MalformedYieldsErrorState ==
    (ShowsToolCall /\ MalformedArguments) => ToolPanelView.kind = "error"

\* C14: a tool call whose arguments parse and whose colors is an array of
\* other than PaletteSize elements is shown as an error state, not as a
\* palette.
C14_WrongLengthYieldsErrorState ==
    (/\ ShowsToolCall
     /\ Parsed.ok
     /\ Property(Parsed.v, "colors").t = "arr"
     /\ Len(Property(Parsed.v, "colors").items) # PaletteSize)
        => ToolPanelView.kind = "error"

WellFormed(th, cs) ==
    JObj(<<[k |-> "theme", v |-> JStr(th)],
           [k |-> "colors", v |-> JArr([i \in 1..PaletteSize |-> JStr(cs[i])])]>>)

\* C16: for arguments that are the text of an object with a theme and
\* PaletteSize color strings, the panel shows that theme and one box per
\* color, the same colors in the same order.
C16_WellFormedRoundTrip ==
    \A th \in Themes, cs \in [1..PaletteSize -> Colors] :
        (ShowsToolCall /\ functionCallOutput.arguments = Stringify(WellFormed(th, cs)))
            => /\ ToolPanelView.kind = "palette"
               /\ ToolPanelView.theme = JStr(th)
               /\ Len(ToolPanelView.boxes) = PaletteSize
               /\ \A i \in 1..PaletteSize : ToolPanelView.boxes[i] = JStr(cs[i])

C16_Witness ==
    /\ ShowsToolCall
    /\ functionCallOutput.arguments =
         Stringify(WellFormed("ocean", <<"#001", "#002", "#002", "#001", "#002">>))
    /\ ToolPanelView.kind = "palette"
    /\ ToolPanelView.boxes = <<JStr("#001"), JStr("#002"), JStr("#002"),
                               JStr("#001"), JStr("#002")>>


\* C15: in a pass the initialisation rule is applied before the
\* tool-completion rule: the registration is sent before any tool call of
\* the pass is recorded or has its timer armed, and the pass, being one
\* step, sends no response.create.
C15_InitBeforeToolCompletion ==
    [][ (lastOp' = "render" /\ lastPass'.ran) =>
          /\ \A i \in 1..Len(lastPass'.order) :
                lastPass'.order[i] = "register" => i = 1
          /\ lastPass'.registered <=> (lastPass'.order # <<>> /\ lastPass'.order[1] = "register")
          /\ Len(lastPass'.order) =
                (IF lastPass'.registered THEN 1 ELSE 0) + 2 * lastPass'.updates
          /\ Len(sent') >= Len(sent)
          /\ \A i \in (Len(sent) + 1)..Len(sent') : sent'[i].type # "response.create" ]_vars

C15_Witness ==
    /\ lastOp = "render" /\ lastPass.ran
    /\ lastPass.order = <<"register", "record", "arm", "record", "arm">>
    /\ sent # <<>> /\ sent[Len(sent)].kind = "tools"


\* C17: the tool registration is never sent while the session is inactive,
\* not even by the pass that follows the reset of functionAdded at teardown.
C17_NoRegistrationWhileInactive ==
    \A i \in DOMAIN sent : sent[i].kind = "tools" => sent[i].active

\* The form holds what it held at construction.
Defaults == instructions = DEFAULT_INSTRUCTIONS /\ voice = VOICE_OPTIONS[1]

\* C18: once the teardown has been committed the draft instructions are the
\* default text and the voice is marin, they stay so until the user edits
\* them, and a submission made in a session before any edit sends the
\* default instructions and the voice marin.
C18_TeardownResetsDraft ==
    [][ /\ (~isSessionActive' /\ ~Effect2Due') => Defaults'
        /\ (Defaults /\ lastOp' \notin {"editInstructions", "editVoice"}) => Defaults'
        /\ (lastOp' = "submit" /\ isSessionActive /\ Defaults) =>
              /\ Len(sent') = Len(sent) + 1
              /\ sent'[Len(sent')].instructions = DEFAULT_INSTRUCTIONS
              /\ sent'[Len(sent')].voice = VOICE_OPTIONS[1] ]_vars

C18_Witness ==
    /\ lastOp = "submit" /\ isSessionActive /\ session = 2
    /\ Len(sent) = 2
    /\ sent[1].sess = 1 /\ sent[1].kind = "user"
    /\ sent[1].instructions = <<"x">>
    /\ sent[2].sess = 2 /\ sent[2].kind = "user"
    /\ sent[2].instructions = DEFAULT_INSTRUCTIONS /\ sent[2].voice = VOICE_OPTIONS[1]

====
